---- MODULE Spec2Model ----
(***************************************************************************)
(* A model of frex's SectionSetConstraint: the builder that collects the   *)
(* constraints of one section set, setup_section_constraints, which posts  *)
(* them to a CP-SAT model, and the solver, which returns any assignment of *)
(* the model's 0/1 variables that satisfies every posted constraint; of    *)
(* get_solution_assignments, which reads the solution; and of the scorer   *)
(* and ranker stages of the candidate pipeline.                            *)
(***************************************************************************)
EXTENDS Integers, Sequences, FiniteSets, TLC

\* ------------------------------------------------------------------ bounds
\* Candidates handed to setup_section_constraints.
NumItems == 2
\* Sections of a section set whose items carry filters, counts and sums.
MaxSections == 2
\* Sections of a section set used as an ordered sequence (orderings, hierarchies).
MaxOrderedSections == 3
\* Entries of each list of constraints the builder keeps.
MaxConstraints == 1

\* ------------------------------------------------------------- the domain
SectionURI(k) == <<"S", k>>
ItemURI(i) == <<"I", i>>

\* A candidate and its domain object: a URI and a numeric attribute "cost",
\* held in quarters (costQ / 4 is the attribute's value: 4.5, 5.5, 6.5, ...),
\* and the scores the pipeline gave the candidate.
DomainObject(i) ==
    [uri |-> ItemURI(i), costQ |-> 18 + 4 * i, applied_scores |-> <<0, 1 + i>>]

\* The candidate tuple of n items, items[0] .. items[n-1].
Candidates(n) == [k \in 1..n |-> DomainObject(k - 1)]

\* The section tuple of n sections.
SectionTuple(n) == [k \in 1..n |-> SectionURI(k - 1)]

\* A SectionConstraintHierarchy node.
Node(root_uri, dependency_and, dependency_or) ==
    [root_uri |-> root_uri, dependency_and |-> dependency_and,
     dependency_or |-> dependency_or]
Leaf(root_uri) == Node(root_uri, <<>>, <<>>)

\* rgetattr(domain_object, attribute_name), in quarters.
rgetattr(obj, attribute_name) == IF attribute_name = "cost" THEN obj.costQ ELSE 0

\* Python's round() of the rational n / d (n >= 0, d > 0): half to even.
PyRound(n, d) ==
    LET q == n \div d
        r == n % d
    IN  IF 2 * r < d THEN q
        ELSE IF 2 * r > d THEN q + 1
        ELSE IF q % 2 = 0 THEN q ELSE q + 1

\* The assignment filters a section can carry.  always_true is the default.
FilterNames == {"always_true", "is_cheap", "is_pricey"}
FilterAccepts(f, obj) ==
    CASE f = "always_true" -> TRUE
      [] f = "is_cheap" -> obj.costQ < 20
      [] f = "is_pricey" -> obj.costQ >= 20

\* Python's None.  An optional count k that is given is <<k>>; a URI is itself.
None == <<>>

\* A Python bool used as an integer.
BoolInt(b) == IF b THEN 1 ELSE 0

\* ------------------------------------------------------- constraint types
ConstraintTypes == {"EQ", "LEQ", "GEQ", "LESS", "GRTR", "AM1"}
OrderingTypes == {"EQ", "LEQ", "GEQ", "LESS", "GRTR"}

\* The binary predicate a ConstraintType carries.
TypeHolds(type, x, y) ==
    CASE type = "EQ" -> x = y
      [] type = "LEQ" -> x <= y
      [] type = "GEQ" -> x >= y
      [] type = "LESS" -> x < y
      [] type = "GRTR" -> x > y
      [] type = "AM1" -> x + y <= 1

\* ------------------------------------------------ the CP-SAT model's terms
\* A linear expression: a constant plus coefficient * variable terms.
Lin(c, t) == [c |-> c, t |-> t]
Const(c) == Lin(c, <<>>)
Var(v) == Lin(0, <<<<1, v>>>>)

\* A literal of OnlyEnforceIf: a variable, or its negation.
Lit(v) == [v |-> v, pos |-> TRUE]
NotLit(v) == [v |-> v, pos |-> FALSE]

\* model.Add(type(lhs, rhs)).OnlyEnforceIf(enf)
Linear(type, lhs, rhs, enf) ==
    [kind |-> "lin", type |-> type, lhs |-> lhs, rhs |-> rhs, enf |-> enf]
\* model.AddMaxEquality(target, vars)
MaxEquality(target, vs) ==
    [kind |-> "max", type |-> "EQ", lhs |-> Var(target),
     rhs |-> Lin(0, [k \in 1..Len(vs) |-> <<1, vs[k]>>]), enf |-> <<>>]

RECURSIVE SumTerms(_, _, _)
SumTerms(t, k, sol) ==
    IF k > Len(t) THEN 0 ELSE t[k][1] * sol[t[k][2]] + SumTerms(t, k + 1, sol)

\* The value of a linear expression under an assignment of the variables.
Eval(e, sol) == e.c + SumTerms(e.t, 1, sol)

RECURSIVE MaxTerms(_, _, _)
MaxTerms(t, k, sol) ==
    IF k = Len(t) THEN sol[t[k][2]]
    ELSE LET rest == MaxTerms(t, k + 1, sol)
             here == sol[t[k][2]]
         IN  IF here >= rest THEN here ELSE rest

LitHolds(l, sol) == IF l.pos THEN sol[l.v] = 1 ELSE sol[l.v] = 0

\* A posted constraint is satisfied: it is not enforced, or it holds.  The
\* maximum of no variable at all has no value, so no assignment satisfies it.
Satisfied(c, sol) ==
    \/ \E k \in 1..Len(c.enf) : ~LitHolds(c.enf[k], sol)
    \/ IF c.kind = "max"
       THEN /\ Len(c.rhs.t) > 0
            /\ Eval(c.lhs, sol) = MaxTerms(c.rhs.t, 1, sol)
       ELSE TypeHolds(c.type, Eval(c.lhs, sol), Eval(c.rhs, sol))

\* The assignments the solver may return for a model of nvars 0/1 variables.
Feasible(nvars, cons, sol) == \A c \in cons : Satisfied(c, sol)
Assignments(nvars) == [0..(nvars - 1) -> {0, 1}]

\* --------------------------------------------------------------- the state
VARIABLES
    sections,                        \* self._sections
    uri_to_index,                    \* self._uri_to_index
    targeted_section_constraints,    \* self._targeted_section_constraints
    section_constraint_hierarchies,  \* self._section_constraint_hierarchies
    section_enforcement_bools,       \* self._section_enforcement_bools
    assignment_count_constraint,     \* self._assignment_count_constraint
    section_assignment_filter,       \* self._section_assignment_filter
    allow_invalid_assignment,        \* self._allow_invalid_assignment
    section_assignment_constraints,  \* self._section_assignment_constraints
    item_ordering_constraints,       \* self._item_ordering_constraints
    required_item_assignments,       \* self._required_item_assignments
    item_assignments,                \* self._item_assignments
    attributes_of_interest,          \* self._attributes_of_interest
    scaling,                         \* self._scaling
    items,                           \* the candidates of the latest compile
    model,                           \* the cp_model of the latest compile
    calls,                           \* the calls of _add_recursive_enforcement_booleans
    solution,                        \* the solver's assignment of the variables
    phase,                           \* build, compiled, solved, infeasible, failed
    solution_section_set,            \* what get_solution_assignments returned
    candidates,                      \* the Candidate objects of a pipeline run
    source,                          \* the candidates handed to the first stage
    pulled,                          \* how many of them the stages have drawn
    stages,                          \* the scorer stages piped over the source
    output,                          \* the candidates the last stage has emitted
    pipeline_phase                   \* open, ranked, aborted

builderVars == <<sections, uri_to_index, targeted_section_constraints,
                 section_constraint_hierarchies, assignment_count_constraint,
                 section_assignment_filter, allow_invalid_assignment,
                 section_assignment_constraints, item_ordering_constraints,
                 required_item_assignments, scaling>>
compileVars == <<section_enforcement_bools, item_assignments,
                 attributes_of_interest, items, model, calls>>
pipelineVars == <<candidates, source, pulled, stages, output, pipeline_phase>>
\* What the builder, the compile and the solver leave alone.
outsideVars == <<solution_section_set, pipelineVars>>
vars == <<builderVars, compileVars, solution, phase, outsideVars>>

\* A dict: a function whose domain is the keys present.
EmptyDict == <<>>
DGet(d, k, dflt) == IF k \in DOMAIN d THEN d[k] ELSE dflt
DPut(d, k, v) == [x \in (DOMAIN d) \cup {k} |-> IF x = k THEN v ELSE d[x]]

\* The state __init__ leaves.
Construct(sc) ==
    /\ sections = <<>>
    /\ uri_to_index = EmptyDict
    /\ targeted_section_constraints = EmptyDict
    /\ section_constraint_hierarchies = <<>>
    /\ section_enforcement_bools = EmptyDict
    /\ assignment_count_constraint = EmptyDict
    /\ section_assignment_filter = EmptyDict
    /\ allow_invalid_assignment = {}
    /\ section_assignment_constraints = <<>>
    /\ item_ordering_constraints = <<>>
    /\ required_item_assignments = EmptyDict
    /\ item_assignments = EmptyDict
    /\ attributes_of_interest = {}
    /\ scaling = sc
    /\ items = <<>>
    /\ model = [nvars |-> 0, cons |-> {}]
    /\ calls = {}
    /\ solution = <<>>
    /\ phase = "build"

\* Nothing extracted yet, and no pipeline run.
NoPipeline ==
    /\ solution_section_set = None
    /\ candidates = <<>>
    /\ source = <<>>
    /\ pulled = 0
    /\ stages = <<>>
    /\ output = <<>>
    /\ pipeline_phase = "open"

Init == Construct(1) /\ NoPipeline

\* Constructed with scaling 1 or 2.
InitScaled == (\E sc \in {1, 2} : Construct(sc)) /\ NoPipeline

\* A call that raises leaves the builder as it was and ends the run.
Raise ==
    /\ phase' = "failed"
    /\ UNCHANGED <<outsideVars, builderVars, compileVars, solution>>

\* ------------------------------------------------------ the builder's calls
\* The index enumerate() gives a URI: that of its last occurrence.
LastIndex(secs, u) ==
    CHOOSE k \in 0..(Len(secs) - 1) :
        /\ secs[k + 1] = u
        /\ \A j \in (k + 1)..(Len(secs) - 1) : secs[j + 1] # u

SectionUris(secs) == {secs[k] : k \in 1..Len(secs)}

NewUriToIndex(secs) ==
    [u \in (DOMAIN uri_to_index) \cup SectionUris(secs) |->
        IF u \in SectionUris(secs) THEN LastIndex(secs, u) ELSE uri_to_index[u]]

set_sections(secs) ==
    /\ phase = "build"
    /\ sections' = secs
    /\ uri_to_index' = NewUriToIndex(secs)
    /\ UNCHANGED <<outsideVars, targeted_section_constraints, section_constraint_hierarchies,
                   assignment_count_constraint, section_assignment_filter,
                   allow_invalid_assignment, section_assignment_constraints,
                   item_ordering_constraints, required_item_assignments, scaling,
                   compileVars, solution, phase>>

set_section_assignment_filter(target_uri, filter_function) ==
    /\ phase = "build"
    /\ IF target_uri \in DOMAIN uri_to_index
       THEN /\ section_assignment_filter' =
                   DPut(section_assignment_filter, uri_to_index[target_uri],
                        filter_function)
            /\ UNCHANGED <<outsideVars, sections, uri_to_index, targeted_section_constraints,
                           section_constraint_hierarchies,
                           assignment_count_constraint, allow_invalid_assignment,
                           section_assignment_constraints,
                           item_ordering_constraints, required_item_assignments,
                           scaling, compileVars, solution, phase>>
       ELSE Raise

allow_invalid_assignment_to_section(target_uri) ==
    /\ phase = "build"
    /\ IF target_uri \in DOMAIN uri_to_index
       THEN /\ allow_invalid_assignment' =
                   allow_invalid_assignment \cup {uri_to_index[target_uri]}
            /\ UNCHANGED <<outsideVars, sections, uri_to_index, targeted_section_constraints,
                           section_constraint_hierarchies,
                           assignment_count_constraint, section_assignment_filter,
                           section_assignment_constraints,
                           item_ordering_constraints, required_item_assignments,
                           scaling, compileVars, solution, phase>>
       ELSE Raise

AttributeConstraint(attribute_name, constraint_type, constraint_value) ==
    [attribute_name |-> attribute_name, constraint_type |-> constraint_type,
     constraint_value |-> constraint_value]

\* d[k].extend(cs) on a defaultdict of lists, for every key k of ks.
ExtendAll(d, ks, cs) ==
    [x \in (DOMAIN d) \cup ks |->
        IF x \in ks THEN DGet(d, x, <<>>) \o cs ELSE d[x]]

\* The lists a call is about to extend are below the model's cap.
BelowCap(d, ks) == \A k \in ks : Len(DGet(d, k, <<>>)) < MaxConstraints

\* The value is held in quarters, like the attributes.
add_section_constraint(attribute_name, constraint_type, valueQ, target_uri) ==
    /\ phase = "build"
    /\ LET ac == AttributeConstraint(attribute_name, constraint_type, valueQ)
           ks == IF target_uri = None
                 THEN 0..(Len(sections) - 1)
                 ELSE {uri_to_index[target_uri]}
       IN  IF target_uri # None /\ target_uri \notin DOMAIN uri_to_index
           THEN Raise
           ELSE /\ BelowCap(targeted_section_constraints, ks)
                /\ targeted_section_constraints' =
                       ExtendAll(targeted_section_constraints, ks, <<ac>>)
                /\ UNCHANGED <<outsideVars, sections, uri_to_index,
                               section_constraint_hierarchies,
                               assignment_count_constraint,
                               section_assignment_filter, allow_invalid_assignment,
                               section_assignment_constraints,
                               item_ordering_constraints,
                               required_item_assignments, scaling, compileVars,
                               solution, phase>>

\* The constraints add_section_count_constraint builds from its arguments.
CountConstraints(min_count, max_count, exact_count) ==
    IF exact_count # None
    THEN <<AttributeConstraint("__item_count", "EQ", exact_count[1])>>
    ELSE (IF min_count # None
          THEN <<AttributeConstraint("__item_count", "GEQ", min_count[1])>>
          ELSE <<>>)
         \o (IF max_count # None
             THEN <<AttributeConstraint("__item_count", "LEQ", max_count[1])>>
             ELSE <<>>)

UriIndexValues == {uri_to_index[u] : u \in DOMAIN uri_to_index}

\* How often the loop over self._uri_to_index.values() meets index x.
TimesInValues(x) == Cardinality({u \in DOMAIN uri_to_index : uri_to_index[u] = x})

RECURSIVE Repeated(_, _)
Repeated(cs, n) == IF n = 0 THEN <<>> ELSE cs \o Repeated(cs, n - 1)

add_section_count_constraint(min_count, max_count, exact_count, target_uri) ==
    /\ phase = "build"
    /\ LET cs == CountConstraints(min_count, max_count, exact_count)
           ks == IF target_uri # None
                 THEN {uri_to_index[target_uri]}
                 ELSE UriIndexValues
       IN  IF target_uri # None /\ target_uri \notin DOMAIN uri_to_index
           THEN Raise
           ELSE /\ BelowCap(assignment_count_constraint, ks)
                /\ assignment_count_constraint' =
                       [x \in (DOMAIN assignment_count_constraint) \cup ks |->
                           IF x \notin ks THEN assignment_count_constraint[x]
                           ELSE DGet(assignment_count_constraint, x, <<>>)
                                \o (IF target_uri # None THEN cs
                                    ELSE Repeated(cs, TimesInValues(x)))]
                /\ UNCHANGED <<outsideVars, sections, uri_to_index,
                               targeted_section_constraints,
                               section_constraint_hierarchies,
                               section_assignment_filter, allow_invalid_assignment,
                               section_assignment_constraints,
                               item_ordering_constraints,
                               required_item_assignments, scaling, compileVars,
                               solution, phase>>

add_hierarchical_section_constraint(hierarchy) ==
    /\ phase = "build"
    /\ Len(section_constraint_hierarchies) < MaxConstraints
    /\ section_constraint_hierarchies' =
           Append(section_constraint_hierarchies, hierarchy)
    /\ UNCHANGED <<outsideVars, sections, uri_to_index, targeted_section_constraints,
                   assignment_count_constraint, section_assignment_filter,
                   allow_invalid_assignment, section_assignment_constraints,
                   item_ordering_constraints, required_item_assignments, scaling,
                   compileVars, solution, phase>>

add_section_assignment_constraint(section_a_uri, section_b_uri, constraint_type) ==
    /\ phase = "build"
    /\ Len(section_assignment_constraints) < MaxConstraints
    /\ section_assignment_constraints' =
           Append(section_assignment_constraints,
                  [constraint_type |-> constraint_type,
                   section_a_uri |-> section_a_uri,
                   section_b_uri |-> section_b_uri])
    /\ UNCHANGED <<outsideVars, sections, uri_to_index, targeted_section_constraints,
                   section_constraint_hierarchies, assignment_count_constraint,
                   section_assignment_filter, allow_invalid_assignment,
                   item_ordering_constraints, required_item_assignments, scaling,
                   compileVars, solution, phase>>

add_item_ordering_dependence_constraint(independent_uri, dependent_uri, constraint_type) ==
    /\ phase = "build"
    /\ Len(item_ordering_constraints) < MaxConstraints
    /\ item_ordering_constraints' =
           Append(item_ordering_constraints,
                  [constraint_type |-> constraint_type,
                   item_a_uri |-> independent_uri,
                   item_b_uri |-> dependent_uri])
    /\ UNCHANGED <<outsideVars, sections, uri_to_index, targeted_section_constraints,
                   section_constraint_hierarchies, assignment_count_constraint,
                   section_assignment_filter, allow_invalid_assignment,
                   section_assignment_constraints, required_item_assignments,
                   scaling, compileVars, solution, phase>>

add_required_item_assignment(section_uri, item_uri) ==
    /\ phase = "build"
    /\ \/ item_uri \in DOMAIN required_item_assignments
       \/ Cardinality(DOMAIN required_item_assignments) < MaxConstraints
    /\ required_item_assignments' =
           DPut(required_item_assignments, item_uri, section_uri)
    /\ UNCHANGED <<outsideVars, sections, uri_to_index, targeted_section_constraints,
                   section_constraint_hierarchies, assignment_count_constraint,
                   section_assignment_filter, allow_invalid_assignment,
                   section_assignment_constraints, item_ordering_constraints,
                   scaling, compileVars, solution, phase>>

\* ------------------------------------------- setup_section_constraints
\* The variables of the model, numbered as they are created: the caller's
\* item_selection[i] first, then item_assignments[i, section_index] in the
\* order of the two loops; the booleans follow.
SelVar(i) == i
NewAssignVar(its, i, s) == Len(its) + i * Len(sections) + s
FirstBool(its) == Len(its) + Len(its) * Len(sections)

ItemRange(its) == 0..(Len(its) - 1)
SectionRange == 0..(Len(sections) - 1)

\* self._item_assignments after the first loop.
NewItemAssignments(its) ==
    LET new == ItemRange(its) \X SectionRange
    IN  [key \in (DOMAIN item_assignments) \cup new |->
            IF key \in new THEN NewAssignVar(its, key[1], key[2])
            ELSE item_assignments[key]]

\* self._section_assignment_filter[section_index](items[i].domain_object)
FilterValue(its, i, s) ==
    FilterAccepts(DGet(section_assignment_filter, s, "always_true"), its[i + 1])

\* model.Add(item_assignments[i, s] <= item_selection[i])
SelectionCons(its) ==
    {Linear("LEQ", Var(NewAssignVar(its, i, s)), Var(SelVar(i)), <<>>) :
        <<i, s>> \in ItemRange(its) \X SectionRange}

\* FilterCons with the test of self._allow_invalid_assignment inverted.
FilterConsInverted(its) ==
    {Linear("LEQ", Var(NewAssignVar(its, key[1], key[2])),
            Const(BoolInt(FilterValue(its, key[1], key[2]))), <<>>) :
        key \in {k \in ItemRange(its) \X SectionRange :
                    k[2] \in allow_invalid_assignment}}

\* model.Add(item_assignments[i, s] <= filter(item)) unless s allows invalid items
FilterCons(its) ==
    {Linear("LEQ", Var(NewAssignVar(its, key[1], key[2])),
            Const(BoolInt(FilterValue(its, key[1], key[2]))), <<>>) :
        key \in {k \in ItemRange(its) \X SectionRange :
                    k[2] \notin allow_invalid_assignment}}

\* RequiredCons with the loop over the sections never matching.
RequiredConsDropped(its) == {}

\* model.Add(item_assignments[i, s] == 1) for the section a required item names
RequiredCons(its) ==
    {Linear("EQ", Var(NewAssignVar(its, key[1], key[2])), Const(1), <<>>) :
        key \in {k \in ItemRange(its) \X SectionRange :
                    /\ its[k[1] + 1].uri \in DOMAIN required_item_assignments
                    /\ sections[k[2] + 1] =
                           required_item_assignments[its[k[1] + 1].uri]}}

\* CoverageCons with the call of AddMaxEquality left out.
CoverageConsDropped(its) == {}

\* model.AddMaxEquality(item_selection[i], this_item_assignment_vars)
CoverageCons(its) ==
    {MaxEquality(SelVar(i),
                 [k \in 1..Len(sections) |-> NewAssignVar(its, i, k - 1)]) :
        i \in ItemRange(its)}

Lits(bools) == [k \in 1..Len(bools) |-> Lit(bools[k])]
Ones(bools) == Lin(0, [k \in 1..Len(bools) |-> <<1, bools[k]>>])

\* AndCons asking for one of the AND children only.
AndConsAtLeastOne(nested_and_bools, parent_bools) ==
    IF nested_and_bools = <<>> THEN {}
    ELSE {Linear("GEQ", Ones(nested_and_bools), Const(1), Lits(parent_bools))}

\* model.Add(sum(nested_and_bools) >= len(nested_and_bools)).OnlyEnforceIf(parent_bools)
AndCons(nested_and_bools, parent_bools) ==
    IF nested_and_bools = <<>> THEN {}
    ELSE {Linear("GEQ", Ones(nested_and_bools), Const(Len(nested_and_bools)),
                 Lits(parent_bools))}

\* model.Add(sum(nested_or_bools) >= 1).OnlyEnforceIf(parent_bools)
OrCons(nested_or_bools, parent_bools) ==
    IF nested_or_bools = <<>> THEN {}
    ELSE {Linear("GEQ", Ones(nested_or_bools), Const(1), Lits(parent_bools))}

\* _add_recursive_enforcement_booleans, threading the compile's state st:
\* ok (no KeyError yet), nv (variables created), cons (constraints posted),
\* enf (self._section_enforcement_bools) and calls (the finished calls).
RECURSIVE AddRecursiveEnforcementBooleans(_, _, _)
RECURSIVE NextLevels(_, _, _, _, _)
NextLevels(st, parent_bools, levels, k, nested_bools) ==
    IF k > Len(levels) \/ ~st.ok
    THEN [st |-> st, bools |-> nested_bools]
    ELSE LET new_bool == st.nv
             next_level_bools == <<new_bool>> \o parent_bools
             st1 == AddRecursiveEnforcementBooleans(
                        [st EXCEPT !.nv = @ + 1], next_level_bools, levels[k])
         IN  NextLevels(st1, parent_bools, levels, k + 1,
                        Append(nested_bools, new_bool))

AddRecursiveEnforcementBooleans(st, parent_bools, hierarchy) ==
    IF ~st.ok THEN st
    ELSE IF hierarchy.root_uri \notin DOMAIN uri_to_index
    THEN [st EXCEPT !.ok = FALSE]
    ELSE LET idx == uri_to_index[hierarchy.root_uri]
             st0 == [st EXCEPT !.enf =
                        DPut(@, idx, DGet(@, idx, <<>>) \o parent_bools)]
             ands == NextLevels(st0, parent_bools, hierarchy.dependency_and,
                                1, <<>>)
             st1 == IF ands.st.ok
                    THEN [ands.st EXCEPT !.cons =
                             @ \cup AndCons(ands.bools, parent_bools)]
                    ELSE ands.st
             ors == NextLevels(st1, parent_bools, hierarchy.dependency_or,
                               1, <<>>)
         IN  IF ors.st.ok
             THEN [ors.st EXCEPT
                      !.cons = @ \cup OrCons(ors.bools, parent_bools),
                      !.calls = @ \cup {[parent_bools |-> parent_bools,
                                         and_bools |-> ands.bools,
                                         or_bools |-> ors.bools]}]
             ELSE ors.st

\* The loop over self._section_constraint_hierarchies.
RECURSIVE Hierarchies(_, _)
Hierarchies(st, k) ==
    IF k > Len(section_constraint_hierarchies) \/ ~st.ok THEN st
    ELSE LET top_level_bool == st.nv
             st0 == [st EXCEPT
                        !.nv = @ + 1,
                        !.cons = @ \cup {Linear("EQ", Var(top_level_bool),
                                                Const(1), <<>>)}]
         IN  Hierarchies(
                 AddRecursiveEnforcementBooleans(
                     st0, <<top_level_bool>>, section_constraint_hierarchies[k]),
                 k + 1)

\* CountCons with the filter's factor left out of the sum.
CountConsUnfiltered(its, enf) ==
    UNION {
        {Linear(DGet(assignment_count_constraint, s, <<>>)[k].constraint_type,
                Lin(0, [n \in 1..Len(its) |-> <<1, NewAssignVar(its, n - 1, s)>>]),
                Const(DGet(assignment_count_constraint, s, <<>>)[k].constraint_value),
                Lits(DGet(enf, s, <<>>))) :
            k \in 1..Len(DGet(assignment_count_constraint, s, <<>>))} :
        s \in SectionRange}

\* The constraints on the number of items of each section, enforced on the
\* section's enforcement booleans enf[section_index].
CountCons(its, enf) ==
    UNION {
        {Linear(DGet(assignment_count_constraint, s, <<>>)[k].constraint_type,
                Lin(0, [n \in 1..Len(its) |->
                           <<BoolInt(FilterValue(its, n - 1, s)),
                             NewAssignVar(its, n - 1, s)>>]),
                Const(DGet(assignment_count_constraint, s, <<>>)[k].constraint_value),
                Lits(DGet(enf, s, <<>>))) :
            k \in 1..Len(DGet(assignment_count_constraint, s, <<>>))} :
        s \in SectionRange}

\* ScaledAttribute with the scaling left out.
ScaledAttributeUnscaled(obj, attribute_name) ==
    PyRound(rgetattr(obj, attribute_name), 4)

\* int(round(rgetattr(item, attribute_name) * self._scaling)): the attribute is
\* a number of quarters.
ScaledAttribute(obj, attribute_name) ==
    PyRound(rgetattr(obj, attribute_name) * scaling, 4)

\* int(round(ac.constraint_value * self._scaling)), the value in quarters too.
ScaledValue(valueQ) == PyRound(valueQ * scaling, 4)

\* The constraints on the attribute sums of each section.
AttributeCons(its, enf) ==
    UNION {
        {Linear(DGet(targeted_section_constraints, s, <<>>)[k].constraint_type,
                Lin(0, [n \in 1..Len(its) |->
                           <<ScaledAttribute(
                                 its[n],
                                 DGet(targeted_section_constraints, s, <<>>)[k]
                                     .attribute_name)
                               * BoolInt(FilterValue(its, n - 1, s)),
                             NewAssignVar(its, n - 1, s)>>]),
                Const(ScaledValue(
                    DGet(targeted_section_constraints, s, <<>>)[k].constraint_value)),
                Lits(DGet(enf, s, <<>>))) :
            k \in 1..Len(DGet(targeted_section_constraints, s, <<>>))} :
        s \in SectionRange}

\* self._attributes_of_interest after the loop over the sections.
NewAttributesOfInterest ==
    attributes_of_interest \cup
    UNION {{DGet(targeted_section_constraints, s, <<>>)[k].attribute_name :
               k \in 1..Len(DGet(targeted_section_constraints, s, <<>>))} :
           s \in SectionRange}

\* The at-most-one constraint of sac is skipped for item i: the filters of
\* its two sections do not both accept the item.
SkipsItem(its, sac, i) ==
    /\ sac.constraint_type = "AM1"
    /\ ~(/\ FilterValue(its, i, uri_to_index[sac.section_a_uri])
         /\ FilterValue(its, i, uri_to_index[sac.section_b_uri]))

\* The loop over self._section_assignment_constraints raises no KeyError.
SectionAssignmentOK(its) ==
    \/ Len(its) = 0
    \/ \A k \in 1..Len(section_assignment_constraints) :
           LET sac == section_assignment_constraints[k]
           IN  /\ sac.section_a_uri \in DOMAIN uri_to_index
               /\ sac.section_b_uri \in DOMAIN uri_to_index
               /\ \A i \in ItemRange(its) :
                      \/ SkipsItem(its, sac, i)
                      \/ /\ <<i, uri_to_index[sac.section_a_uri]>>
                                \in DOMAIN NewItemAssignments(its)
                         /\ <<i, uri_to_index[sac.section_b_uri]>>
                                \in DOMAIN NewItemAssignments(its)

\* The constraints between an item's assignments to two sections.
SectionAssignmentCons(its) ==
    UNION {
        {Linear(section_assignment_constraints[k].constraint_type,
                Var(NewItemAssignments(its)[
                    <<i, uri_to_index[section_assignment_constraints[k].section_a_uri]>>]),
                Var(NewItemAssignments(its)[
                    <<i, uri_to_index[section_assignment_constraints[k].section_b_uri]>>]),
                <<>>) :
            i \in {j \in ItemRange(its) :
                      ~SkipsItem(its, section_assignment_constraints[k], j)}} :
        k \in 1..Len(section_assignment_constraints)}

\* item_uri_to_index: the last index of a candidate with the URI.
ItemUris(its) == {its[k].uri : k \in 1..Len(its)}
ItemUriToIndex(its, uri) ==
    CHOOSE i \in ItemRange(its) :
        /\ its[i + 1].uri = uri
        /\ \A j \in (i + 1)..(Len(its) - 1) : its[j + 1].uri # uri

\* The loop over self._item_ordering_constraints raises no KeyError.
ItemOrderingOK(its) ==
    \A k \in 1..Len(item_ordering_constraints) :
        /\ item_ordering_constraints[k].item_a_uri \in ItemUris(its)
        /\ item_ordering_constraints[k].item_b_uri \in ItemUris(its)

IsStrict(ioc) == ioc.constraint_type \in {"LESS", "GRTR"}

\* The strict ordering constraints among the first k.
StrictBefore(k) ==
    Cardinality({j \in 1..k : IsStrict(item_ordering_constraints[j])})

\* sum(item_assignments[item, j] * (j + 1)) + item_selection[other] * (section_count + 2)
PaddedPosition(its, item, other) ==
    Lin(0, [j \in 1..Len(sections) |-> <<j, NewAssignVar(its, item, j - 1)>>]
           \o <<<<Len(sections) + 2, SelVar(other)>>>>)

\* The constraints one item-ordering constraint posts; cond_or_zero is the
\* boolean created for a strict one.
OrderingCons(its, ioc, cond_or_zero) ==
    LET a == ItemUriToIndex(its, ioc.item_a_uri)
        b == ItemUriToIndex(its, ioc.item_b_uri)
    IN  IF IsStrict(ioc)
        THEN {Linear(ioc.constraint_type, PaddedPosition(its, a, b),
                     PaddedPosition(its, b, a), <<Lit(cond_or_zero)>>),
              Linear("EQ", Var(SelVar(b)), Const(1), <<Lit(cond_or_zero)>>),
              Linear("EQ", Var(SelVar(b)), Const(0), <<NotLit(cond_or_zero)>>)}
        ELSE {Linear(ioc.constraint_type, PaddedPosition(its, a, b),
                     PaddedPosition(its, b, a), <<>>)}

ItemOrderingCons(its, first_bool) ==
    UNION {OrderingCons(its, item_ordering_constraints[k],
                        first_bool + StrictBefore(k - 1)) :
           k \in 1..Len(item_ordering_constraints)}

\* What one call of setup_section_constraints leaves: whether it returned
\* (ok) or raised, the model it filled and the builder's fields it changed.
Compile(its) ==
    LET st0 == [ok |-> TRUE, nv |-> FirstBool(its),
                cons |-> SelectionCons(its) \cup FilterCons(its)
                         \cup RequiredCons(its) \cup CoverageCons(its),
                enf |-> section_enforcement_bools, calls |-> {}]
        st1 == Hierarchies(st0, 1)
        perSection == CountCons(its, st1.enf) \cup AttributeCons(its, st1.enf)
        sacOK == st1.ok /\ SectionAssignmentOK(its)
        iocOK == sacOK /\ ItemOrderingOK(its)
    IN  [ok |-> iocOK,
         nvars |-> IF iocOK
                   THEN st1.nv + StrictBefore(Len(item_ordering_constraints))
                   ELSE st1.nv,
         cons |-> st1.cons
                  \cup (IF st1.ok THEN perSection ELSE {})
                  \cup (IF sacOK THEN SectionAssignmentCons(its) ELSE {})
                  \cup (IF iocOK THEN ItemOrderingCons(its, st1.nv) ELSE {}),
         enf |-> st1.enf,
         calls |-> st1.calls,
         aoi |-> IF st1.ok THEN NewAttributesOfInterest
                 ELSE attributes_of_interest]

setup_section_constraints(its) ==
    /\ phase = "build"
    /\ LET r == Compile(its)
       IN  /\ items' = its
           /\ item_assignments' = NewItemAssignments(its)
           /\ section_enforcement_bools' = r.enf
           /\ attributes_of_interest' = r.aoi
           /\ calls' = r.calls
           /\ model' = [nvars |-> r.nvars, cons |-> r.cons]
           /\ phase' = IF r.ok THEN "compiled" ELSE "failed"
    /\ UNCHANGED <<outsideVars, builderVars, solution>>

\* The solver: any assignment that satisfies every posted constraint, or the
\* report that there is none.
Solve ==
    /\ phase = "compiled"
    /\ LET sols == {sol \in Assignments(model.nvars) :
                       Feasible(model.nvars, model.cons, sol)}
       IN  IF sols = {}
           THEN /\ phase' = "infeasible"
                /\ solution' = <<>>
           ELSE /\ phase' = "solved"
                /\ solution' \in sols
    /\ UNCHANGED <<outsideVars, builderVars, compileVars>>

\* ------------------------------------------------- reading a solution
\* solver.Value(item_selection[i]) and solver.Value(self._item_assignments[i, s])
Selected(i) == solution[SelVar(i)] = 1
Assigned(i, s) == solution[item_assignments[<<i, s>>]] = 1

\* The sections item i is assigned to.
SectionsOf(i) == {s \in SectionRange : Assigned(i, s)}

\* The filter of section s rejects candidate i.
Rejects(s, i) ==
    ~FilterAccepts(DGet(section_assignment_filter, s, "always_true"), items[i + 1])

\* ------------------------------------------------------- specifications
CandidateUris == {ItemURI(i) : i \in 0..(NumItems - 1)}

\* Sections with filters and sections that allow invalid items.
NextAssign ==
    \/ \E n \in 1..MaxSections : set_sections(SectionTuple(n))
    \/ \E u \in SectionUris(sections), f \in {"is_cheap", "is_pricey"} :
           set_section_assignment_filter(u, f)
    \/ \E u \in SectionUris(sections) : allow_invalid_assignment_to_section(u)
    \/ setup_section_constraints(Candidates(NumItems))
    \/ Solve

SpecAssign == Init /\ [][NextAssign]_vars

\* Required item assignments, to sections with or without the is_cheap
\* filter, that allow invalid items or not.
NextRequired ==
    \/ \E n \in 1..MaxSections : set_sections(SectionTuple(n))
    \/ \E u \in SectionUris(sections) :
           set_section_assignment_filter(u, "is_cheap")
    \/ \E u \in SectionUris(sections) : allow_invalid_assignment_to_section(u)
    \/ \E u \in SectionUris(sections), i \in CandidateUris :
           add_required_item_assignment(u, i)
    \/ setup_section_constraints(Candidates(NumItems))
    \/ Solve

SpecRequired == Init /\ [][NextRequired]_vars

\* Item-ordering constraints between the two candidates, over up to
\* MaxOrderedSections sections.
NextOrder ==
    \/ \E n \in 1..MaxOrderedSections : set_sections(SectionTuple(n))
    \/ \E a, b \in {ItemURI(0), ItemURI(1)}, t \in OrderingTypes :
           /\ a # b
           /\ add_item_ordering_dependence_constraint(a, b, t)
    \/ setup_section_constraints(Candidates(2))
    \/ Solve

SpecOrder == Init /\ [][NextOrder]_vars

\* The section the count and attribute specifications constrain.
Target == SectionURI(0)
TargetIfSet == {Target} \cap SectionUris(sections)

\* Section 1 is met by section 0 or by itself: the enforcement boolean of
\* section 0 is free.
EitherSection == Node(SectionURI(1), <<>>, <<Leaf(Target), Leaf(SectionURI(1))>>)

\* Count constraints on a section with or without a filter, that allows
\* invalid items or not, and is enforced always or under a hierarchy.
NextCount ==
    \/ \E n \in 1..MaxSections : set_sections(SectionTuple(n))
    \/ \E u \in TargetIfSet : set_section_assignment_filter(u, "is_cheap")
    \/ \E u \in TargetIfSet : allow_invalid_assignment_to_section(u)
    \/ \E u \in TargetIfSet \cup {None}, exact \in {<<1>>, <<2>>},
          lohi \in {<<None, None>>, <<<<0>>, <<1>>>>} :
           add_section_count_constraint(lohi[1], lohi[2], exact, u)
    \/ /\ section_constraint_hierarchies = <<>>
       /\ add_hierarchical_section_constraint(EitherSection)
    \/ setup_section_constraints(Candidates(NumItems))
    \/ Solve

SpecCount == Init /\ [][NextCount]_vars

\* Attribute constraints on the cost of a section's items: at most, or
\* exactly, 6 or 10.5.
NextAttribute ==
    \/ \E n \in 1..MaxSections : set_sections(SectionTuple(n))
    \/ \E u \in TargetIfSet : set_section_assignment_filter(u, "is_cheap")
    \/ \E u \in TargetIfSet : allow_invalid_assignment_to_section(u)
    \/ \E u \in TargetIfSet \cup {None}, t \in {"LEQ", "EQ"}, v \in {24, 42} :
           add_section_constraint("cost", t, v, u)
    \/ setup_section_constraints(Candidates(NumItems))
    \/ Solve

SpecAttribute == InitScaled /\ [][NextAttribute]_vars

\* At-most-one and other constraints between the assignments of an item to
\* two sections.
NextBetween ==
    \/ \E n \in 1..MaxSections : set_sections(SectionTuple(n))
    \/ \E u \in SectionUris(sections) :
           set_section_assignment_filter(u, "is_cheap")
    \/ \E u \in SectionUris(sections) : allow_invalid_assignment_to_section(u)
    \/ \E a, b \in SectionUris(sections), t \in {"AM1", "LEQ"} :
           /\ a # b
           /\ add_section_assignment_constraint(a, b, t)
    \/ setup_section_constraints(Candidates(NumItems))
    \/ Solve

SpecBetween == Init /\ [][NextBetween]_vars

\* Hierarchies over three sections, and one item in every section whose
\* count constraint is enforced.
Hierarchies3 ==
    LET R == SectionURI(0)
        R1 == SectionURI(1)
        R2 == SectionURI(2)
    IN  {Node(R, <<Leaf(R1), Leaf(R2)>>, <<>>),
         Node(R, <<>>, <<Leaf(R1), Leaf(R2)>>),
         Node(R, <<Leaf(R1)>>, <<Leaf(R2)>>),
         Node(R, <<Leaf(R1), Leaf(R2)>>,
                 <<Node(R1, <<Leaf(R2)>>, <<>>), Leaf(R2)>>)}

NextHierarchy ==
    \/ \E n \in 1..MaxOrderedSections : set_sections(SectionTuple(n))
    \/ \E h \in Hierarchies3 : add_hierarchical_section_constraint(h)
    \/ add_section_count_constraint(None, None, <<1>>, None)
    \/ setup_section_constraints(Candidates(1))
    \/ Solve

SpecHierarchy == Init /\ [][NextHierarchy]_vars

\* ---------------------------------------------------------------- claims
\* C1: in every feasible solution, item_selection[i] = 1 if and only if
\* item i is assigned to at least one section.
SelectedIffAssigned ==
    phase = "solved" =>
        \A i \in ItemRange(items) : Selected(i) <=> SectionsOf(i) # {}

\* C1's case: a solution with one item selected and in two sections, and one
\* item left out.
SelectedIffAssignedWitness ==
    /\ phase = "solved"
    /\ \E i, j \in ItemRange(items) :
           /\ Selected(i) /\ Cardinality(SectionsOf(i)) = 2
           /\ ~Selected(j) /\ SectionsOf(j) = {}

\* C2: in every feasible solution no item sits in a section whose filter
\* rejects it, unless the section allows invalid assignments; and for a
\* section that allows them no bound on the assignment variable is posted.
FilterGating ==
    /\ phase = "solved" =>
           \A s \in SectionRange, i \in ItemRange(items) :
               (s \notin allow_invalid_assignment /\ Rejects(s, i))
                   => ~Assigned(i, s)
    /\ phase \in {"compiled", "solved", "infeasible"} =>
           \A s \in SectionRange \cap allow_invalid_assignment,
              i \in ItemRange(items), c \in model.cons :
               ~(/\ c.type = "LEQ"
                 /\ c.lhs = Var(item_assignments[<<i, s>>])
                 /\ c.rhs.t = <<>>)

\* C2's case: a solution in which a rejected item is kept out of one section
\* and sits in another that allows invalid assignments.
FilterGatingWitness ==
    /\ phase = "solved"
    /\ \E s, t \in SectionRange, i \in ItemRange(items) :
           /\ s \notin allow_invalid_assignment /\ Rejects(s, i) /\ ~Assigned(i, s)
           /\ t \in allow_invalid_assignment /\ Rejects(t, i) /\ Assigned(i, t)

\* C10: a required item that is selected is assigned to its required
\* section; and the model has no solution when that section's filter rejects
\* the item and the section does not allow invalid assignments.
RequiredAssignment ==
    phase = "solved" =>
        \A i \in ItemRange(items), s \in SectionRange :
            (/\ items[i + 1].uri \in DOMAIN required_item_assignments
             /\ sections[s + 1] = required_item_assignments[items[i + 1].uri])
                => /\ Selected(i) => Assigned(i, s)
                   /\ ~(Rejects(s, i) /\ s \notin allow_invalid_assignment)

\* C10's case: a solution with a required item in its required section, which
\* rejects it and allows invalid assignments, while another section is open too.
RequiredAssignmentWitness ==
    /\ phase = "solved"
    /\ \E i \in ItemRange(items), s \in SectionRange :
           /\ items[i + 1].uri \in DOMAIN required_item_assignments
           /\ sections[s + 1] = required_item_assignments[items[i + 1].uri]
           /\ Rejects(s, i) /\ s \in allow_invalid_assignment
           /\ Selected(i) /\ Assigned(i, s)
           /\ Len(sections) > 1

\* The first section, in section order, that holds item i.
FirstSection(i) == CHOOSE s \in SectionsOf(i) : \A t \in SectionsOf(i) : s <= t

IndependentOf(ioc) == ItemUriToIndex(items, ioc.item_a_uri)
DependentOf(ioc) == ItemUriToIndex(items, ioc.item_b_uri)
OrderingRange == 1..Len(item_ordering_constraints)

\* C3: under a LESS ordering of (a, b), in every feasible solution that
\* selects both, the first section holding a is strictly before the first
\* section holding b.
LessOrdersFirstSections ==
    phase = "solved" =>
        \A k \in OrderingRange :
            LET ioc == item_ordering_constraints[k]
                a == IndependentOf(ioc)
                b == DependentOf(ioc)
            IN  (ioc.constraint_type = "LESS" /\ Selected(a) /\ Selected(b))
                    => FirstSection(a) < FirstSection(b)

\* C4: under a LESS ordering of (a, b), every feasible solution that selects
\* b selects a.
LessDependentNeedsIndependent ==
    phase = "solved" =>
        \A k \in OrderingRange :
            LET ioc == item_ordering_constraints[k]
            IN  (ioc.constraint_type = "LESS" /\ Selected(DependentOf(ioc)))
                    => Selected(IndependentOf(ioc))

\* The assignment sol selects item a, in section s alone, and leaves b out.
AloneIn(sol, a, s, b) ==
    /\ sol[SelVar(a)] = 1
    /\ \A t \in SectionRange :
           sol[item_assignments[<<a, t>>]] = (IF t = s THEN 1 ELSE 0)
    /\ sol[SelVar(b)] = 0
    /\ \A t \in SectionRange : sol[item_assignments[<<b, t>>]] = 0

\* C5: whatever the type of an ordering of (a, b), for every section s the
\* assignment "a selected, in s alone, b not selected" satisfies what
\* setup_section_constraints posts for the ordering.
IndependentFreelySelected ==
    phase = "compiled" =>
        \A k \in OrderingRange, s \in SectionRange :
            LET ioc == item_ordering_constraints[k]
            IN  \E sol \in Assignments(model.nvars) :
                    /\ AloneIn(sol, IndependentOf(ioc), s, DependentOf(ioc))
                    /\ \A c \in OrderingCons(items, ioc,
                                             FirstBool(items) + StrictBefore(k - 1)) :
                           Satisfied(c, sol)

\* Every enforcement boolean of section s is true (or it has none).
Enforced(s) ==
    \A k \in 1..Len(DGet(section_enforcement_bools, s, <<>>)) :
        solution[section_enforcement_bools[s][k]] = 1

\* The candidates assigned to section s, and those of them its filter accepts.
ItemsIn(s) == {i \in ItemRange(items) : Assigned(i, s)}
AcceptedIn(s) == {i \in ItemsIn(s) : ~Rejects(s, i)}

CountsOf(s) == DGet(assignment_count_constraint, s, <<>>)

RECURSIVE SumScaled(_, _)
\* The sum of round(attribute * scaling) over the candidates of a set.
SumScaled(S, attribute_name) ==
    IF S = {} THEN 0
    ELSE LET i == CHOOSE x \in S : TRUE
         IN  PyRound(rgetattr(items[i + 1], attribute_name) * scaling, 4)
             + SumScaled(S \ {i}, attribute_name)

TargetedOf(s) == DGet(targeted_section_constraints, s, <<>>)
Unconditional(s) == DGet(section_enforcement_bools, s, <<>>) = <<>>

AllTrue(bools, sol) == \A k \in 1..Len(bools) : sol[bools[k]] = 1

\* The assignment sol with the booleans of bools set to 0.
Cleared(sol, bools) ==
    [v \in DOMAIN sol |->
        IF \E k \in 1..Len(bools) : bools[k] = v THEN 0 ELSE sol[v]]

\* C8: for every hierarchy node processed, in every feasible solution whose
\* enforcement chain of the node is all true, every AND child's boolean is
\* true and, if the node has OR children, one of their booleans is true; and
\* when the chain is not all true the children's booleans may all be false.
HierarchyEnforcement ==
    phase = "solved" =>
        \A call \in calls :
            IF AllTrue(call.parent_bools, solution)
            THEN /\ AllTrue(call.and_bools, solution)
                 /\ call.or_bools # <<>> =>
                        \E k \in 1..Len(call.or_bools) :
                            solution[call.or_bools[k]] = 1
            ELSE Feasible(model.nvars, model.cons,
                          Cleared(solution, call.and_bools \o call.or_bools))

\* C8's case: a solution in which one node with two AND children has its
\* chain all true, and one node with children has a chain that is not.
HierarchyEnforcementWitness ==
    /\ phase = "solved"
    /\ \E call \in calls :
           /\ Len(call.and_bools) = 2
           /\ AllTrue(call.parent_bools, solution)
    /\ \E call \in calls :
           /\ call.and_bools \o call.or_bools # <<>>
           /\ ~AllTrue(call.parent_bools, solution)

\* C9: under an at-most-one constraint on two sections no item is assigned
\* to both, whatever their filters and their allowing of invalid items.
AtMostOneOfTwoSections ==
    phase = "solved" =>
        \A k \in 1..Len(section_assignment_constraints) :
            LET sac == section_assignment_constraints[k]
            IN  sac.constraint_type = "AM1" =>
                    \A i \in ItemRange(items) :
                        ~(/\ Assigned(i, uri_to_index[sac.section_a_uri])
                          /\ Assigned(i, uri_to_index[sac.section_b_uri]))

\* ------------------------------------------------- unknown references
\* URIs a caller can name: those of the sections and candidates there can
\* be, and one of each that is never registered.
NamedSectionUris == {SectionURI(k) : k \in 0..MaxSections}
NamedItemUris == {ItemURI(i) : i \in 0..NumItems}

\* Constraints that name sections and items, registered or not.
NextUnknown ==
    \/ \E n \in 1..MaxSections : set_sections(SectionTuple(n))
    \/ \E u \in NamedSectionUris, i \in NamedItemUris :
           add_required_item_assignment(u, i)
    \/ \E a, b \in NamedSectionUris :
           /\ a # b
           /\ add_section_assignment_constraint(a, b, "LEQ")
    \/ \E a, b \in NamedItemUris :
           /\ a # b
           /\ add_item_ordering_dependence_constraint(a, b, "LEQ")
    \/ setup_section_constraints(Candidates(NumItems))
    \/ Solve

SpecUnknown == Init /\ [][NextUnknown]_vars

\* Every URI the builder's constraints reference is a registered section or a
\* candidate of the compile.
ReferencesKnown ==
    /\ \A i \in DOMAIN required_item_assignments :
           /\ i \in ItemUris(items)
           /\ required_item_assignments[i] \in SectionUris(sections)
    /\ \A k \in 1..Len(section_assignment_constraints) :
           /\ section_assignment_constraints[k].section_a_uri \in SectionUris(sections)
           /\ section_assignment_constraints[k].section_b_uri \in SectionUris(sections)
    /\ \A k \in 1..Len(item_ordering_constraints) :
           /\ item_ordering_constraints[k].item_a_uri \in ItemUris(items)
           /\ item_ordering_constraints[k].item_b_uri \in ItemUris(items)

\* C11: setup_section_constraints completes only when every URI referenced by
\* a required item assignment, a section-assignment constraint or an ordering
\* constraint is a registered section or a candidate item; otherwise it fails.
UnknownReferenceFails ==
    phase \in {"compiled", "solved", "infeasible"} => ReferencesKnown

\* ------------------------------------------------------------ the pipeline
\* Candidates of one pipeline run, and scorer stages applied to them.
MaxCandidates == 3
MaxStages == 2

\* A candidate's domain object carries a rating, <<r>>, or none at all.
Ratings == {None, <<1>>, <<2>>}

\* A Candidate as a generator stage emits it.
Candidate(rating) ==
    [rating |-> rating, applied_explanations |-> <<"generated">>,
     applied_scores |-> <<0>>]

RECURSIVE SumSeq(_)
SumSeq(seq) == IF seq = <<>> THEN 0 ELSE Head(seq) + SumSeq(Tail(seq))

\* Candidate.total_score
total_score(c) == SumSeq(c.applied_scores)

\* The scorers: one scores a candidate by its rating and raises when there is
\* none, one gives every candidate 1.
Scorers ==
    {[scoring_explanation |-> "rated", score |-> "by_rating"],
     [scoring_explanation |-> "listed", score |-> "flat"]}

ScoreRaises(scorer, c) == scorer.score = "by_rating" /\ c.rating = None
Score(scorer, c) == IF scorer.score = "by_rating" THEN c.rating[1] ELSE 1

\* One pass of a scorer's loop over candidate c: the explanation is appended,
\* then the score, unless score() raises.
ScoreOneExplanationOnly(scorer, c) ==
    [ok |-> ~ScoreRaises(scorer, c),
     cand |-> [c EXCEPT !.applied_explanations =
                            Append(@, scorer.scoring_explanation)]]

ScoreOne(scorer, c) ==
    LET explained == [c EXCEPT !.applied_explanations =
                                   Append(@, scorer.scoring_explanation)]
    IN  IF ScoreRaises(scorer, c)
        THEN [ok |-> FALSE, cand |-> explained]
        ELSE [ok |-> TRUE,
              cand |-> [explained EXCEPT !.applied_scores =
                                             Append(@, Score(scorer, c))]]

\* Candidate c drawn through the piped stages k, k+1, ...: each generator
\* hands what it yields to the next.
RECURSIVE Through(_, _, _)
Through(sts, k, c) ==
    IF k > Len(sts) THEN [ok |-> TRUE, cand |-> c]
    ELSE LET r == ScoreOne(sts[k], c)
         IN  IF r.ok THEN Through(sts, k + 1, r.cand) ELSE r

\* The candidates ids[k], ids[k+1], ... drawn through the stages one after
\* the other, until one raises.
RECURSIVE Drain(_, _, _, _)
Drain(st, sts, ids, k) ==
    IF k > Len(ids) \/ ~st.ok THEN st
    ELSE LET r == Through(sts, 1, st.heap[ids[k]])
         IN  Drain([ok |-> r.ok,
                    heap |-> [st.heap EXCEPT ![ids[k]] = r.cand],
                    out |-> IF r.ok THEN Append(st.out, ids[k]) ELSE st.out,
                    pulled |-> k],
                   sts, ids, k + 1)

Reverse(seq) == [k \in 1..Len(seq) |-> seq[Len(seq) + 1 - k]]

\* A stable ascending sort of candidate ids by total_score: each id goes
\* behind the ids already placed whose key is not greater.
RECURSIVE InsertStable(_, _, _)
InsertStable(heap, sorted, id) ==
    IF sorted = <<>> THEN <<id>>
    ELSE IF total_score(heap[Head(sorted)]) <= total_score(heap[id])
    THEN <<Head(sorted)>> \o InsertStable(heap, Tail(sorted), id)
    ELSE <<id>> \o sorted

RECURSIVE StableSort(_, _)
StableSort(heap, ids) ==
    IF ids = <<>> THEN <<>>
    ELSE InsertStable(heap, StableSort(heap, SubSeq(ids, 1, Len(ids) - 1)),
                      ids[Len(ids)])

\* Sorted with the list not reversed before the stable sort.
SortedTiesReversed(heap, ids) == Reverse(StableSort(heap, ids))

\* sorted(ids, key=lambda c: c.total_score, reverse=True): the list is
\* reversed, sorted stably in ascending order, and reversed again.
Sorted(heap, ids) == Reverse(StableSort(heap, Reverse(ids)))

\* A scorer stage is piped over the stream: calling it creates its generator,
\* which runs nothing until a candidate is drawn.
CandidateScorer_call(scorer) ==
    /\ pipeline_phase = "open"
    /\ pulled = 0
    /\ Len(stages) < MaxStages
    /\ stages' = Append(stages, scorer)
    /\ UNCHANGED <<builderVars, compileVars, solution, phase,
                   solution_section_set, candidates, source, pulled, output,
                   pipeline_phase>>

\* The consumer draws the next candidate from the last generator.
next_candidate ==
    /\ pipeline_phase = "open"
    /\ pulled < Len(source)
    /\ LET id == source[pulled + 1]
           r == Through(stages, 1, candidates[id])
       IN  /\ candidates' = [candidates EXCEPT ![id] = r.cand]
           /\ pulled' = pulled + 1
           /\ output' = IF r.ok THEN Append(output, id) ELSE output
           /\ pipeline_phase' = IF r.ok THEN "open" ELSE "aborted"
    /\ UNCHANGED <<builderVars, compileVars, solution, phase,
                   solution_section_set, source, stages>>

\* CandidateRanker.execute over the piped stages: list(candidates) draws
\* every candidate, then the list is sorted and emitted.
CandidateRanker_execute ==
    /\ pipeline_phase = "open"
    /\ pulled = 0
    /\ LET d == Drain([ok |-> TRUE, heap |-> candidates, out |-> <<>>,
                       pulled |-> 0], stages, source, 1)
       IN  /\ candidates' = d.heap
           /\ pulled' = d.pulled
           /\ output' = IF d.ok THEN Sorted(d.heap, d.out) ELSE <<>>
           /\ pipeline_phase' = IF d.ok THEN "ranked" ELSE "aborted"
    /\ UNCHANGED <<builderVars, compileVars, solution, phase,
                   solution_section_set, source, stages>>

\* ScoringService.execute on the tuple of candidates: every candidate is
\* scored, and the tuple is returned sorted; it is the next service's input.
ScoringService_execute(service) ==
    /\ pipeline_phase = "open"
    /\ pulled = 0
    /\ stages = <<>>
    /\ \A k \in 1..Len(source) :
           Len(candidates[source[k]].applied_explanations) <= MaxStages
    /\ LET d == Drain([ok |-> TRUE, heap |-> candidates, out |-> <<>>,
                       pulled |-> 0], <<service>>, source, 1)
       IN  /\ candidates' = d.heap
           /\ source' = IF d.ok THEN Sorted(d.heap, source) ELSE source
           /\ pipeline_phase' = IF d.ok THEN "open" ELSE "aborted"
    /\ UNCHANGED <<builderVars, compileVars, solution, phase,
                   solution_section_set, pulled, stages, output>>

\* A pipeline run over up to MaxCandidates generated candidates.
InitPipeline ==
    /\ Construct(1)
    /\ solution_section_set = None
    /\ \E n \in 0..MaxCandidates :
           /\ candidates \in [1..n -> {Candidate(r) : r \in Ratings}]
           /\ source = [k \in 1..n |-> k]
    /\ pulled = 0
    /\ stages = <<>>
    /\ output = <<>>
    /\ pipeline_phase = "open"

NextPipeline ==
    \/ \E scorer \in Scorers : CandidateScorer_call(scorer)
    \/ next_candidate
    \/ CandidateRanker_execute
    \/ \E service \in Scorers : ScoringService_execute(service)

SpecPipeline == InitPipeline /\ [][NextPipeline]_vars

\* ------------------------------------------------- claims on the pipeline
Ids(seq) == {seq[k] : k \in 1..Len(seq)}
PositionIn(seq, id) == CHOOSE k \in 1..Len(seq) : seq[k] = id
ScoreOf(id) == total_score(candidates[id])

\* C12: what CandidateRanker.execute emits is a permutation of its input, in
\* non-increasing order of total_score, and candidates of equal total_score
\* keep the order they had in the input; for an empty input and for an input
\* of ties too.
RankerSortsStably ==
    pipeline_phase = "ranked" =>
        /\ Len(output) = Len(source)
        /\ Ids(output) = Ids(source)
        /\ \A k \in 1..(Len(output) - 1) :
               ScoreOf(output[k]) >= ScoreOf(output[k + 1])
        /\ \A i, j \in 1..Len(output) :
               (i < j /\ ScoreOf(output[i]) = ScoreOf(output[j]))
                   => PositionIn(source, output[i]) < PositionIn(source, output[j])

\* The ranker has moved a candidate forward, past two that tie.
RankerSortsStablyWitness ==
    /\ pipeline_phase = "ranked"
    /\ Len(output) >= 3
    /\ output # source
    /\ \E i, j \in 1..Len(output) :
           /\ i < j
           /\ ScoreOf(output[i]) = ScoreOf(output[j])
           /\ \E k \in 1..Len(output) : ScoreOf(output[k]) > ScoreOf(output[i])

EvenTrail(c) == Len(c.applied_explanations) = Len(c.applied_scores)

\* The candidates a stage has handed on: those the last generator (or the
\* ranker) emitted, and the tuple a scoring service returned.
EmittedIds ==
    Ids(output) \cup
    (IF pipeline_phase = "open" /\ pulled = 0 THEN Ids(source) ELSE {})

\* A step in which candidate id came out of the piped scorer stages.
NewlyEmitted(id) == id \in Ids(output)' /\ id \notin Ids(output)

\* A step in which a scoring service returned.
ServiceReturned ==
    /\ stages = <<>>
    /\ pulled' = 0
    /\ pipeline_phase' = "open"
    /\ candidates' # candidates

\* The trail of candidate id grew by the pairs of the scorers sts, in order.
GrewBy(id, sts) ==
    /\ candidates'[id].applied_explanations =
           candidates[id].applied_explanations
               \o [k \in 1..Len(sts) |-> sts[k].scoring_explanation]
    /\ candidates'[id].applied_scores =
           candidates[id].applied_scores
               \o [k \in 1..Len(sts) |-> Score(sts[k], candidates[id])]

\* C13: every candidate the scorer stages emit has as many explanations as
\* scores, and each scorer stage it went through added exactly one entry to
\* both: the stage's explanation and the stage's score.
ScorersAppendPairs ==
    /\ [](\A id \in EmittedIds : EvenTrail(candidates[id]))
    /\ [][/\ \A id \in DOMAIN candidates :
                 NewlyEmitted(id) => GrewBy(id, stages)
          /\ ServiceReturned =>
                 \E service \in Scorers :
                     \A id \in DOMAIN candidates : GrewBy(id, <<service>>)]_vars

\* A candidate has come out of a scoring service and two piped scorers.
ScorersAppendPairsWitness ==
    \E id \in Ids(output) :
        /\ Len(stages) >= 2
        /\ Len(candidates[id].applied_scores) >= 4
        /\ EvenTrail(candidates[id])

\* C19: when score() raises for a candidate the stage aborts, and every
\* candidate, the one being scored included, still has as many explanations
\* as scores.
AbortLeavesTrailsEven ==
    pipeline_phase = "aborted" =>
        \A id \in DOMAIN candidates : EvenTrail(candidates[id])

\* ------------------------------------------- the builder's section tuples
\* The tuples set_sections can be given: up to MaxSections different sections
\* out of those a caller can name, in any order.
RECURSIVE TuplesOfLength(_)
TuplesOfLength(n) ==
    IF n = 0 THEN {<<>>}
    ELSE {Append(t, u) : t \in TuplesOfLength(n - 1), u \in NamedSectionUris}

SectionTuples ==
    {t \in UNION {TuplesOfLength(n) : n \in 1..MaxSections} :
        \A i, j \in 1..Len(t) : i # j => t[i] # t[j]}

OptionalCounts == {None, <<1>>}

\* set_sections called any number of times, and count and attribute
\* constraints added with and without a target, before and after.
NextSections ==
    \/ \E secs \in SectionTuples : set_sections(secs)
    \/ \E lo \in OptionalCounts, hi \in OptionalCounts, ex \in OptionalCounts,
          u \in NamedSectionUris \cup {None} :
           add_section_count_constraint(lo, hi, ex, u)
    \/ \E u \in NamedSectionUris \cup {None} :
           add_section_constraint("cost", "LEQ", 24, u)

SpecSections == Init /\ [][NextSections]_vars

\* The count constraints the arguments ask for.
CountsAskedFor(lo, hi, ex) ==
    IF ex # None
    THEN <<[attribute_name |-> "__item_count", constraint_type |-> "EQ",
            constraint_value |-> ex[1]]>>
    ELSE (IF lo = None THEN <<>>
          ELSE <<[attribute_name |-> "__item_count", constraint_type |-> "GEQ",
                  constraint_value |-> lo[1]]>>)
         \o (IF hi = None THEN <<>>
             ELSE <<[attribute_name |-> "__item_count", constraint_type |-> "LEQ",
                     constraint_value |-> hi[1]]>>)

\* The indices of the registered sections the call is about.
IndicesAskedFor(u) ==
    IF u = None THEN SectionRange
    ELSE {k \in SectionRange : sections[k + 1] = u}

\* C14: add_section_count_constraint adds one EQ constraint when exact_count
\* is given, else GEQ iff min_count and LEQ iff max_count are given; without a
\* target_uri exactly once to each index of the registered sections and to no
\* other index, with a target_uri to that section only; after any calls of
\* the builder, set_sections more than once included.
CountFanOut ==
    [][\A lo \in OptionalCounts, hi \in OptionalCounts, ex \in OptionalCounts,
          u \in SectionUris(sections) \cup {None} :
           add_section_count_constraint(lo, hi, ex, u) =>
               \A x \in 0..MaxSections :
                   DGet(assignment_count_constraint', x, <<>>) =
                       DGet(assignment_count_constraint, x, <<>>)
                       \o (IF x \in IndicesAskedFor(u)
                           THEN CountsAskedFor(lo, hi, ex) ELSE <<>>)]_vars

\* C15: on a builder whose sections have not been set, add_section_constraint
\* and add_section_count_constraint, with or without a target_uri, raise: no
\* such call returns normally.
SectionsMustBeSetFirst ==
    (phase = "build" /\ sections = <<>>) =>
        /\ \A u \in NamedSectionUris \cup {None} :
               ~ENABLED (add_section_constraint("cost", "LEQ", 24, u)
                         /\ phase' = "build")
        /\ \A u \in NamedSectionUris \cup {None} :
               ~ENABLED (add_section_count_constraint(None, None, <<1>>, u)
                         /\ phase' = "build")

\* C16: uri_to_index is unique and total over the current sections: its keys
\* are the URIs of the current sections, each mapped to the section's
\* position, and no two URIs have the same index.
UriToIndexTotal ==
    /\ DOMAIN uri_to_index = SectionUris(sections)
    /\ \A u \in DOMAIN uri_to_index :
           /\ uri_to_index[u] \in SectionRange
           /\ sections[uri_to_index[u] + 1] = u
    /\ \A u, v \in DOMAIN uri_to_index :
           uri_to_index[u] = uri_to_index[v] => u = v

\* ------------------------------------------------- compiling more than once
\* The enforcement booleans a section may hold when another compile starts.
MaxEnforcementBools == 3

\* The caller makes a fresh cp_model for another compile of the same builder;
\* the builder keeps its fields.
new_model ==
    /\ phase \in {"compiled", "solved", "infeasible"}
    /\ \A s \in DOMAIN section_enforcement_bools :
           Len(section_enforcement_bools[s]) <= MaxEnforcementBools
    /\ phase' = "build"
    /\ model' = [nvars |-> 0, cons |-> {}]
    /\ solution' = <<>>
    /\ solution_section_set' = None
    /\ UNCHANGED <<builderVars, section_enforcement_bools, item_assignments,
                   attributes_of_interest, items, calls, pipelineVars>>

NextRecompile ==
    \/ \E n \in 1..MaxSections : set_sections(SectionTuple(n))
    \/ /\ section_constraint_hierarchies = <<>>
       /\ add_hierarchical_section_constraint(EitherSection)
    \/ \E u \in SectionUris(sections) \cup {None}, v \in {24, 42} :
           add_section_constraint("cost", "LEQ", v, u)
    \/ \E u \in SectionUris(sections) \cup {None} :
           add_section_count_constraint(None, None, <<1>>, u)
    \/ \E n \in 1..NumItems : setup_section_constraints(Candidates(n))
    \/ new_model

SpecRecompile == Init /\ [][NextRecompile]_vars

\* self._section_enforcement_bools as one compile of a newly configured
\* builder leaves it.
EnforcementOfOneCompile ==
    Hierarchies([ok |-> TRUE, nv |-> FirstBool(items), cons |-> {},
                 enf |-> EmptyDict, calls |-> {}], 1).enf

\* C17: a compile carries nothing over from an earlier compile: after
\* setup_section_constraints, on a builder compiled before or not, every
\* section's enforcement set is the one a single compile builds, made of the
\* booleans of the latest compile only.
CompileIsStateless ==
    phase = "compiled" =>
        \A s \in SectionRange :
            DGet(section_enforcement_bools, s, <<>>) =
                DGet(EnforcementOfOneCompile, s, <<>>)

\* ------------------------------------------------ get_solution_assignments
\* The body of the two loops for candidate i and section j.
ExtractOneScaled(acc, i, j) ==
    IF solution[item_assignments[<<i, j>>]] = 1
    THEN [acc EXCEPT
             !.section_items[j + 1] = Append(@, items[i + 1]),
             !.section_scores[j + 1] = @ + total_score(items[i + 1]),
             !.section_attribute_values[j + 1] =
                 [attr \in DOMAIN @ |-> @[attr] + ScaledAttribute(items[i + 1], attr)]]
    ELSE acc

ExtractOne(acc, i, j) ==
    IF solution[item_assignments[<<i, j>>]] = 1
    THEN [acc EXCEPT
             !.section_items[j + 1] = Append(@, items[i + 1]),
             !.section_scores[j + 1] = @ + total_score(items[i + 1]),
             !.section_attribute_values[j + 1] =
                 [attr \in DOMAIN @ |-> @[attr] + rgetattr(items[i + 1], attr)]]
    ELSE acc

\* The loops, candidate by candidate and section by section; k counts the
\* pairs (i, j) done.
RECURSIVE ExtractLoop(_, _)
ExtractLoop(acc, k) ==
    IF k >= Len(items) * Len(sections) THEN acc
    ELSE ExtractLoop(ExtractOne(acc, k \div Len(sections), k % Len(sections)),
                     k + 1)

\* The ConstraintSolutionSectionSet: its tuple of ConstraintSolutionSections.
ConstraintSolutionSectionSet ==
    LET acc == ExtractLoop(
                   [section_scores |-> [j \in 1..Len(sections) |-> 0],
                    section_attribute_values |->
                        [j \in 1..Len(sections) |->
                            [attr \in attributes_of_interest |-> 0]],
                    section_items |-> [j \in 1..Len(sections) |-> <<>>]], 0)
    IN  [j \in 1..Len(sections) |->
            [section_object |-> sections[j],
             section_score |-> acc.section_scores[j],
             section_attribute_values |-> acc.section_attribute_values[j],
             section_candidates |-> acc.section_items[j]]]

get_solution_assignments ==
    /\ phase = "solved"
    /\ solution_section_set' = ConstraintSolutionSectionSet
    /\ UNCHANGED <<builderVars, compileVars, solution, phase, pipelineVars>>

\* Solutions of sections with and without a bound on their cost, extracted.
NextExtract ==
    \/ \E n \in 1..MaxSections : set_sections(SectionTuple(n))
    \/ \E u \in SectionUris(sections) \cup {None}, v \in {24, 42} :
           add_section_constraint("cost", "LEQ", v, u)
    \/ setup_section_constraints(Candidates(NumItems))
    \/ Solve
    \/ get_solution_assignments

SpecExtract == Init /\ [][NextExtract]_vars

RECURSIVE SumOver(_, _)
SumOver(S, f) ==
    IF S = {} THEN 0
    ELSE LET x == CHOOSE y \in S : TRUE IN f[x] + SumOver(S \ {x}, f)

\* The candidates assigned to section s, in the order of the candidate list.
CandidatesOf(s) ==
    LET picked == SelectSeq([k \in 1..Len(items) |-> k - 1],
                            LAMBDA i : Assigned(i, s))
    IN  [k \in 1..Len(picked) |-> items[picked[k] + 1]]

\* C18: get_solution_assignments returns one ConstraintSolutionSection per
\* registered section, in section order; its section_candidates are the
\* candidates i with a[i,s] = 1 in candidate-list order, its section_score is
\* the sum of their total_score, and section_attribute_values holds, for every
\* attribute of interest, the sum of the attribute over them (0 when empty).
SolutionSections ==
    (phase = "solved" /\ solution_section_set # None) =>
        /\ Len(solution_section_set) = Len(sections)
        /\ \A s \in SectionRange :
               LET section == solution_section_set[s + 1]
               IN  /\ section.section_object = sections[s + 1]
                   /\ section.section_candidates = CandidatesOf(s)
                   /\ section.section_score =
                          SumOver(ItemsIn(s),
                                  [i \in ItemRange(items) |->
                                      total_score(items[i + 1])])
                   /\ DOMAIN section.section_attribute_values =
                          attributes_of_interest
                   /\ \A attr \in attributes_of_interest :
                          section.section_attribute_values[attr] =
                              SumOver(ItemsIn(s),
                                      [i \in ItemRange(items) |->
                                          rgetattr(items[i + 1], attr)])

\* A solution extracted in which one section holds two candidates, another
\* holds one, and the cost is an attribute of interest.
SolutionSectionsWitness ==
    /\ phase = "solved"
    /\ solution_section_set # None
    /\ "cost" \in attributes_of_interest
    /\ \E s, t \in SectionRange :
           /\ s # t
           /\ Cardinality(ItemsIn(s)) >= 2
           /\ Cardinality(ItemsIn(t)) = 1
           /\ solution_section_set[s + 1].section_attribute_values["cost"] > 0
====
